---- MODULE Spec2Model ----
(***************************************************************************)
(* NoteFlow: the App shell (src/App.tsx), the ingestion service            *)
(* (src/unnamed/part_000, analyzeSheetMusic) and the playback engine of    *)
(* the MusicPlayer component (src/unnamed/part_002).                       *)
(*                                                                         *)
(* Conventions                                                             *)
(*  - Frame indices are 0-based as in the code; frames[index] of the code  *)
(*    is data.frames[index + 1] here.                                      *)
(*  - playbackSpeed and frame durations are kept in quarters (speed 1.0    *)
(*    is 4, a duration of 0.5 beat is 2): every value the code can produce *)
(*    from 1.0 by +-0.25 steps is an exact multiple of 0.25.               *)
(*  - Real numbers computed by playFrame are exact fractions               *)
(*    [num, den]; den = 0 stands for +Infinity (num = 1), -Infinity        *)
(*    (num = -1) and NaN (num = 0), as IEEE division produces them.        *)
(*  - A React event handler and the render it causes are one step: the     *)
(*    handlers below read the state of the latest render.  What a handler  *)
(*    captured when it was created stays captured: the callback given to   *)
(*    setTimeout by playFrame carries the playFrame of the render in which *)
(*    play was clicked, hence that render's playbackSpeed and data.        *)
(*  - The redraw effect belongs to the step of the render that schedules   *)
(*    it: React flushes it before any later handler runs.  An error raised *)
(*    in an effect unmounts the whole tree (there is no error boundary);   *)
(*    status "CRASHED" stands for the page left without a tree.            *)
(*  - The canvas is described by the index of the frame it shows.          *)
(*  - A pitch token is a sequence of characters; a frequency is kept as    *)
(*    its distance in semitones from 440 Hz.                               *)
(*  - A frame id is the character string the template literal prints.     *)
(*  - answer, lastChord, lastRead and lastOp record what the program did;  *)
(*    no action reads them to decide anything.                             *)
(***************************************************************************)
EXTENDS Integers, Sequences, FiniteSets, TLC

\* ------------------------------------------------------------------ bounds
MaxFrames == 3
Phases == 1
MaxPages == 1

MaxChord == 2

\* ------------------------------------------------------- program constants
InitialSpeed == 4
MinSpeed == 1
MaxSpeed == 8
SpeedStep == 1
BeatNumerator == 60
MsPerSec == 1000

\* --------------------------------------------------------------- fractions
Abs(n) == IF n < 0 THEN -n ELSE n

Sign(n) == IF n < 0 THEN -1 ELSE IF n > 0 THEN 1 ELSE 0

\* (operands are bound through a singleton set so that each is evaluated once)
RECURSIVE GCD(_, _)
GCD(a, b) ==
  IF b = 0 THEN a
  ELSE CHOOSE g \in { GCD(p[1], p[2]) : p \in {<<b, a % b>>} } : TRUE

Reduce(n, d) ==
  IF d = 0 THEN [num |-> Sign(n), den |-> 0]
  ELSE LET s == IF d < 0 THEN -1 ELSE 1
           g == GCD(Abs(n), Abs(d))
       IN [num |-> (s * n) \div g, den |-> (s * d) \div g]

\* the IEEE quotient n / d as a canonical fraction
Norm(n, d) == CHOOSE r \in { Reduce(p[1], p[2]) : p \in {<<n, d>>} } : TRUE

FracMul(a, b) ==
  CHOOSE r \in { Norm(p[1].num * p[2].num, p[1].den * p[2].den) :
                   p \in {<<a, b>>} } : TRUE

FracDiv(a, b) ==
  CHOOSE r \in { Norm(p[1].num * p[2].den, p[1].den * p[2].num) :
                   p \in {<<a, b>>} } : TRUE

Quarters(q) == Norm(q, 4)

\* ------------------------------------------------------------ pitch tokens
\* a pitch token is a sequence of characters
UpperLetters ==
  <<"A", "B", "C", "D", "E", "F", "G", "H", "I", "J", "K", "L", "M", "N",
    "O", "P", "Q", "R", "S", "T", "U", "V", "W", "X", "Y", "Z">>

LowerLetters ==
  <<"a", "b", "c", "d", "e", "f", "g", "h", "i", "j", "k", "l", "m", "n",
    "o", "p", "q", "r", "s", "t", "u", "v", "w", "x", "y", "z">>

Digits == <<"0", "1", "2", "3", "4", "5", "6", "7", "8", "9">>

\* position of c in the sequence s, 0 when it does not occur
IndexOf(s, c) ==
  CHOOSE r \in { IF \E i \in 1..Len(p[1]) : p[1][i] = p[2]
                 THEN CHOOSE i \in 1..Len(p[1]) :
                        p[1][i] = p[2] /\ \A j \in 1..(i - 1) : p[1][j] # p[2]
                 ELSE 0 : p \in {<<s, c>>} } : TRUE

Lower(c) ==
  CHOOSE r \in { IF i > 0 THEN LowerLetters[i] ELSE c :
                 i \in {IndexOf(UpperLetters, c)} } : TRUE

Upper(c) ==
  CHOOSE r \in { IF i > 0 THEN UpperLetters[i] ELSE c :
                 i \in {IndexOf(LowerLetters, c)} } : TRUE

ToLowerCase(s) == [i \in 1..Len(s) |-> Lower(s[i])]

ToUpperCase(s) == [i \in 1..Len(s) |-> Upper(s[i])]

Includes(s, sub) ==
  \E i \in 1..(Len(s) - Len(sub) + 1) : SubSeq(s, i, i + Len(sub) - 1) = sub

\* variant of IsRest: only the exact token "rest" is silent
IsRest_Exact(pitch) == ToLowerCase(pitch) = <<"r", "e", "s", "t">>

IsRest(pitch) ==
  \E low \in {ToLowerCase(pitch)} : Includes(low, <<"r", "e", "s", "t">>)

\* --------------------------------------------------------- tone synthesizer
NoteNames ==
  << <<"C">>, <<"C", "#">>, <<"D">>, <<"D", "#">>, <<"E">>, <<"F">>,
     <<"F", "#">>, <<"G">>, <<"G", "#">>, <<"A">>, <<"A", "#">>, <<"B">> >>

\* [a-zA-Z#]
IsNameChar(c) ==
  IndexOf(UpperLetters, c) > 0 \/ IndexOf(LowerLetters, c) > 0 \/ c = "#"

\* \d
IsDigit(c) == IndexOf(Digits, c) > 0

\* /^([a-zA-Z#]+)(\d+)$/ : the length of group 1, 0 when there is no match
MatchSplit(pitch) ==
  LET ok(p, k) == /\ \A i \in 1..k : IsNameChar(p[i])
                  /\ \A i \in (k + 1)..Len(p) : IsDigit(p[i])
  IN CHOOSE r \in { IF \E k \in 1..(Len(p) - 1) : ok(p, k)
                    THEN CHOOSE k \in 1..(Len(p) - 1) : ok(p, k)
                    ELSE 0 : p \in {pitch} } : TRUE

\* parseInt of a string of decimal digits
RECURSIVE ParseInt(_)
ParseInt(ds) ==
  IF ds = <<>> THEN 0
  ELSE CHOOSE r \in { 10 * ParseInt(d) + (IndexOf(Digits, ds[Len(ds)]) - 1) :
                      d \in {SubSeq(ds, 1, Len(ds) - 1)} } : TRUE

\* a frequency 440 * 2^(semis / 12) Hz
Hz440(semis) == [base |-> 440, semis |-> semis]

DefaultFrequency == Hz440(0)

\* variant of NoteMidi: the octave is not shifted by one
NoteMidi_NoShift(octave, semitoneIndex) == octave * 12 + semitoneIndex

NoteMidi(octave, semitoneIndex) == (octave + 1) * 12 + semitoneIndex

\* playTone: the frequency given to the oscillator
Frequency(pitch) ==
  LET Matched(note, octave) ==
        CHOOSE f \in { IF semitoneIndex # -1
                       THEN Hz440(NoteMidi(octave, semitoneIndex) - 69)
                       ELSE DefaultFrequency :
                       semitoneIndex \in {IndexOf(NoteNames, note) - 1} } : TRUE
  IN CHOOSE f \in { IF k = 0 THEN DefaultFrequency
                    ELSE Matched(ToUpperCase(SubSeq(pitch, 1, k)),
                                 ParseInt(SubSeq(pitch, k + 1, Len(pitch)))) :
                    k \in {MatchSplit(pitch)} } : TRUE

\* AudioEngine.playTone: the voices it starts (none or one)
PlayTone(pitch, durationSec, startTime) ==
  CHOOSE vs \in { IF IsRest(p) THEN <<>>
                  ELSE << [pitch |-> p, freq |-> Frequency(p),
                           start |-> startTime, dur |-> durationSec] >> :
                  p \in {pitch} } : TRUE

\* ctx.currentTime as playChord reads it: the origin of the chord's time axis
ClockReading == Norm(0, 1)

RECURSIVE TonesFrom(_, _, _, _)
TonesFrom(pitches, i, durationSec, now) ==
  IF i > Len(pitches) THEN <<>>
  ELSE CHOOSE vs \in { PlayTone(pitches[i], durationSec, now)
                         \o TonesFrom(pitches, j, durationSec, now) :
                       j \in {i + 1} } : TRUE

\* variant of PlayChord: each note starts 20 ms after the one before it
PlayChord_Stagger(pitches, durationSec) ==
  LET kept == SelectSeq(pitches, LAMBDA p : ~IsRest(p))
  IN [voices |-> [i \in 1..Len(kept) |->
                    PlayTone(kept[i], durationSec, Norm(2 * (i - 1), 100))[1]],
      dur |-> durationSec]

\* AudioEngine.playChord: the voices the call starts, and for how long
PlayChord(pitches, durationSec) ==
  CHOOSE c \in { [voices |-> TonesFrom(p[1], 1, p[2], ClockReading),
                  dur |-> p[2]] : p \in {<<pitches, durationSec>>} } : TRUE

NoChord == [voices |-> <<>>, dur |-> Norm(0, 1)]

\* -------------------------------------------------------------- input data
\* an optional field: Undefined when the service left it out, else Some(v)
Undefined == {}

Some(v) == {v}

SampleBox == <<100, 0, 300, 500>>

\* the frames of the sample score: C4 for one beat, a rest for half a beat,
\* the chord E4 G4 for two beats, and so on in turn
ScoreFrame(i) ==
  CASE i % 3 = 1 -> [pageIndex |-> 0, notes |-> <<<<"C", "4">>>>,
                     duration |-> 4, box_2d |-> Some(SampleBox),
                     note_coordinates |-> Some(<<<<200, 100, 220, 120>>>>)]
    [] i % 3 = 2 -> [pageIndex |-> 0, notes |-> <<<<"r", "e", "s", "t">>>>,
                     duration |-> 2, box_2d |-> Some(SampleBox),
                     note_coordinates |-> Some(<<>>)]
    [] OTHER -> [pageIndex |-> 0, notes |-> <<<<"E", "4">>, <<"G", "4">>>>,
                 duration |-> 8, box_2d |-> Some(SampleBox),
                 note_coordinates |-> Some(<<<<180, 300, 200, 320>>,
                                             <<160, 300, 180, 320>>>>)]

\* the ways the frames of the service's answer can be malformed: durations
\* that are not positive; no region; a region of no height together with no
\* highlight list and a flat for a pitch, followed by a frame on a page that
\* was never uploaded
Defects == {"badDur", "noBox", "sloppy"}

Defect(kind, f, i) ==
  CASE kind = "badDur" -> [f EXCEPT !.duration = IF i % 3 = 2 THEN 0 ELSE -4]
    [] kind = "noBox" -> [f EXCEPT !.box_2d = Undefined]
    [] kind = "sloppy" ->
         IF i % 3 = 2
         THEN [f EXCEPT !.box_2d = Some(<<100, 0, 100, 500>>),
                        !.note_coordinates = Undefined,
                        !.notes = <<<<"B", "b", "4">>>>]
         ELSE [f EXCEPT !.pageIndex = 7]

\* the sample score with a malformed second frame and, for the kinds that
\* have one, a malformed third frame
DefectFrame(kind, i) ==
  IF i % 3 = 2 \/ (kind \in {"badDur", "sloppy"} /\ i % 3 = 0)
  THEN Defect(kind, ScoreFrame(i), i)
  ELSE ScoreFrame(i)

Tempos == {120}

BadTempos == {-60, 0}

FrameSeqs == { [i \in 1..n |-> ScoreFrame(i)] : n \in 0..MaxFrames }

ShortSeqs == { [i \in 1..n |-> ScoreFrame(i)] : n \in {1} }

DefectSeqs ==
  { [i \in 1..n |-> DefectFrame(kind, i)] : n \in {MaxFrames}, kind \in Defects }

\* the frame f with an id the service put in
WithId(f, id) == [k \in DOMAIN f \cup {"id"} |-> IF k = "id" THEN id ELSE f[k]]

\* an id as the service may supply it: the same for every frame, and of the
\* form of the local ones
ServiceId == <<"f", "r", "a", "m", "e", "-", "0", "-", "1", "7", "0", "0">>

\* the first two frames of the sample score, each with the service's id
IdSeqs == { [i \in 1..n |-> WithId(ScoreFrame(i), ServiceId)] : n \in {2} }

\* pitch tokens a frame can carry: notes in either letter case, a sharp, a
\* flat, a letter that names no note, a name without an octave, a negative
\* octave, a two-digit octave, and rests
Tokens ==
  { <<"A", "4">>, <<"A", "5">>, <<"C", "4">>, <<"c", "#", "3">>,
    <<"B", "b", "4">>, <<"H", "2">>, <<"A">>, <<"C", "-", "1">>,
    <<"A", "1", "0">>, <<"r", "e", "s", "t">>, <<"R", "e", "s", "t">>,
    <<"r", "e", "s", "t", "2">> }

Chords == UNION { [1..n -> Tokens] : n \in 0..MaxChord }

\* a one-beat frame that carries the chord
ChordFrame(chord) == [ScoreFrame(1) EXCEPT !.notes = chord]

\* what the recognition service can answer
Responses ==
  { [kind |-> k] : k \in {"nokey", "notext", "badjson", "noframes"} }
    \cup { [kind |-> "ok", tempo |-> t, frames |-> fs] :
             t \in Tempos, fs \in FrameSeqs }
    \cup { [kind |-> "ok", tempo |-> t, frames |-> fs] :
             t \in BadTempos, fs \in ShortSeqs }
    \cup { [kind |-> "ok", tempo |-> t, frames |-> fs] :
             t \in Tempos, fs \in DefectSeqs }
    \cup { [kind |-> "ok", tempo |-> t, frames |-> fs] :
             t \in Tempos, fs \in IdSeqs }

Stamps == {1700}

NoData == [kind |-> "null"]

NoMsg == "null"

AnalyzeFailedMsg == "Failed to analyze sheet music. Please ensure the images are clear and try again."

ReadFailedMsg == "Error reading files."

\* ------------------------------------------------------------------- state
VARIABLES
  status,            \* App: AppStatus, or "CRASHED" once React has torn the tree down
  imageSrcs,         \* App: number of page images held (0 is [])
  sheetData,         \* App: SheetAnalysisResult or NoData
  errorMessage,      \* App: string or NoMsg
  pc,                \* App.handleFilesSelect: "none", "reading", "analyzing"
  files,             \* number of files handed to the running handleFilesSelect
  isPlaying,         \* MusicPlayer state
  currentFrameIndex, \* MusicPlayer state
  playbackSpeed,     \* MusicPlayer state, in quarters
  timeoutRef,        \* MusicPlayer ref: timer handle, 0 is null
  timers,            \* the browser's table of pending setTimeout callbacks
  images,            \* imagesRef: the pages in use whose Image is complete
  canvas,            \* index of the frame the canvas shows, -1 while blank
  lastChord,         \* what the last playChord call started
  lastRead,          \* index of the last data.frames[index] read by playFrame
  answer,            \* the parsed answer the session in hand was ingested from
  lastOp             \* the last handler of the App or the player that ran

appVars == <<status, imageSrcs, sheetData, errorMessage, pc, files>>

playerVars == <<isPlaying, currentFrameIndex, playbackSpeed, timeoutRef>>

viewVars == <<images, canvas>>

vars == <<status, imageSrcs, sheetData, errorMessage, pc, files, isPlaying,
          currentFrameIndex, playbackSpeed, timeoutRef, timers, images, canvas,
          lastChord, lastRead, answer, lastOp>>

\* the render guard of <MusicPlayer>
Mounted ==
  /\ status \in {"READY", "PLAYING"}
  /\ imageSrcs > 0
  /\ sheetData # NoData

Init ==
  /\ status = "IDLE"
  /\ imageSrcs = 0
  /\ sheetData = NoData
  /\ errorMessage = NoMsg
  /\ pc = "none"
  /\ files = 0
  /\ isPlaying = FALSE
  /\ currentFrameIndex = 0
  /\ playbackSpeed = InitialSpeed
  /\ timeoutRef = 0
  /\ timers = {}
  /\ images = {}
  /\ canvas = -1
  /\ lastChord = NoChord
  /\ lastRead = -1
  /\ answer = NoData
  /\ lastOp = "init"

\* ------------------------------------------------------------------ timers
\* setTimeout returns a handle no live reference holds; handles are opaque,
\* so the least free one stands for it
TableIds(tbl) == { t.id : t \in tbl }

NewHandle(tbl) ==
  CHOOSE n \in 1..(Cardinality(tbl) + 2) :
    /\ n \notin TableIds(tbl)
    /\ n # timeoutRef
    /\ \A m \in 1..(n - 1) : m \in TableIds(tbl) \/ m = timeoutRef

\* variant of ClearTimeout: the callback stays in the table
ClearTimeout_Keep(tbl, id) == tbl

ClearTimeout(tbl, id) == { t \in tbl : t.id # id }

\* a timeout whose delay is not a positive finite number runs at once
Immediate(delay) == delay.den = 0 \/ delay.num <= 0

Due(t) == Immediate(t.delay) \/ t.progress >= Phases

\* ---------------------------------------------------------------- playFrame
BeatDurationSec(tempo) == Norm(BeatNumerator, tempo)

\* variant of FrameDurationSec: the speed multiplies the duration
FrameDurationSec_Times(tempo, duration, speed) ==
  FracMul(FracMul(BeatDurationSec(tempo), Quarters(duration)), Quarters(speed))

FrameDurationSec(tempo, duration, speed) ==
  FracDiv(FracMul(BeatDurationSec(tempo), Quarters(duration)), Quarters(speed))

FrameDurationMs(tempo, duration, speed) ==
  FracMul(FrameDurationSec(tempo, duration, speed), Norm(MsPerSec, 1))

Articulated(sec) == FracMul(sec, Norm(95, 100))

\* the environment a playFrame closure was created in
Env(speed, data, live) == [speed |-> speed, data |-> data, live |-> live]

\* the player state a handler leaves behind for React to render
Update(playing, index, ref, tbl, chord, read) ==
  [isPlaying |-> playing, currentFrameIndex |-> index, timeoutRef |-> ref,
   timers |-> tbl, lastChord |-> chord, lastRead |-> read]

\* variant of PastEnd: stops as soon as the last frame would begin
PastEnd_Early(index, frames) == index + 1 >= Len(frames)

\* the guard that ends playback
PastEnd(index, frames) == index >= Len(frames)

\* variant of NextIndex: the callback passes index + 2
NextIndex_Skip(index) == index + 2

\* variant of NextIndex: the callback passes index again
NextIndex_Stay(index) == index

\* the index the armed callback passes to playFrame
NextIndex(index) == index + 1

\* variant of PlayFrame: past the end it stops where it is, the index it
\* was called with, instead of going back to 0
PlayFrame_StayAtEnd(index, env, playing, tbl) ==
  IF PastEnd(index, env.data.frames)
  THEN Update(IF env.live THEN FALSE ELSE isPlaying,
              IF env.live THEN index ELSE currentFrameIndex,
              timeoutRef, tbl, lastChord, lastRead)
  ELSE LET frame == env.data.frames[index + 1]
           sec == FrameDurationSec(env.data.tempo, frame.duration, env.speed)
           ms == FrameDurationMs(env.data.tempo, frame.duration, env.speed)
           id == NewHandle(tbl)
       IN Update(IF env.live THEN playing ELSE isPlaying,
                 IF env.live THEN index ELSE currentFrameIndex,
                 IF env.live THEN id ELSE timeoutRef,
                 tbl \cup { [id |-> id, index |-> NextIndex(index),
                             delay |-> ms, env |-> env, progress |-> 0] },
                 PlayChord(frame.notes, Articulated(sec)),
                 index)

\* playFrame(index) run in the closure env; playing is the value isPlaying
\* has been set to by the caller, tbl the timer table at the call
PlayFrame(index, env, playing, tbl) ==
  IF PastEnd(index, env.data.frames)
  THEN Update(IF env.live THEN FALSE ELSE isPlaying,
              IF env.live THEN 0 ELSE currentFrameIndex,
              timeoutRef, tbl, lastChord, lastRead)
  ELSE LET frame == env.data.frames[index + 1]
           sec == FrameDurationSec(env.data.tempo, frame.duration, env.speed)
           ms == FrameDurationMs(env.data.tempo, frame.duration, env.speed)
           id == NewHandle(tbl)
       IN Update(IF env.live THEN playing ELSE isPlaying,
                 IF env.live THEN index ELSE currentFrameIndex,
                 IF env.live THEN id ELSE timeoutRef,
                 tbl \cup { [id |-> id, index |-> NextIndex(index),
                             delay |-> ms, env |-> env, progress |-> 0] },
                 PlayChord(frame.notes, Articulated(sec)),
                 index)

\* ---------------------------------------------------------------- drawFrame
\* variant of DrawFrame: the image is used without the guard on it
DrawFrame_NoGuard(index, data, imgs) ==
  IF index >= Len(data.frames) THEN "skip"
  ELSE IF data.frames[index + 1].pageIndex \notin imgs THEN "throw"
  ELSE IF data.frames[index + 1].box_2d = Undefined THEN "throw"
  ELSE "draw"

\* drawFrame(index) with the images imgs complete: "skip" when it returns
\* early, "throw" when it raises, "draw" when it paints the frame; numbers
\* that are degenerate but present give non-finite arguments, which the
\* canvas calls ignore
DrawFrame(index, data, imgs) ==
  IF index >= Len(data.frames) THEN "skip"
  ELSE IF data.frames[index + 1].pageIndex \notin imgs THEN "skip"
  ELSE IF data.frames[index + 1].box_2d = Undefined THEN "throw"
  ELSE "draw"

\* the tree is torn down: the effect cleanup clears the timer ref holds;
\* callbacks of the instance that survive are detached from the live state
Teardown(tbl, ref) ==
  { [t EXCEPT !.env.live = FALSE] : t \in ClearTimeout(tbl, ref) }

FreshPlayer ==
  /\ isPlaying' = FALSE
  /\ currentFrameIndex' = 0
  /\ playbackSpeed' = InitialSpeed
  /\ timeoutRef' = 0

\* an effect raised: with no error boundary React unmounts the whole tree
Crash(tbl, ref) ==
  /\ status' = "CRASHED"
  /\ imageSrcs' = 0
  /\ sheetData' = NoData
  /\ errorMessage' = NoMsg
  /\ FreshPlayer
  /\ timers' = Teardown(tbl, ref)
  /\ images' = {}
  /\ canvas' = -1

\* React commits the update u; the redraw effect runs drawFrame when
\* currentFrameIndex has changed
Render(u) ==
  IF /\ u.currentFrameIndex # currentFrameIndex
     /\ DrawFrame(u.currentFrameIndex, sheetData, images) = "throw"
  THEN /\ Crash(u.timers, u.timeoutRef)
       /\ lastChord' = u.lastChord
       /\ lastRead' = u.lastRead
       /\ UNCHANGED <<pc, files, answer>>
  ELSE /\ isPlaying' = u.isPlaying
       /\ currentFrameIndex' = u.currentFrameIndex
       /\ timeoutRef' = u.timeoutRef
       /\ timers' = u.timers
       /\ lastChord' = u.lastChord
       /\ lastRead' = u.lastRead
       /\ canvas' = IF /\ u.currentFrameIndex # currentFrameIndex
                       /\ DrawFrame(u.currentFrameIndex, sheetData, images) = "draw"
                    THEN u.currentFrameIndex
                    ELSE canvas
       /\ UNCHANGED <<appVars, playbackSpeed, images, answer>>

\* ------------------------------------------------------- MusicPlayer events
\* variant of HandlePlayPause: pause forgets clearTimeout
HandlePlayPause_NoClear ==
  /\ Mounted
  /\ \E u \in { IF isPlaying
                THEN Update(FALSE, currentFrameIndex, timeoutRef, timers,
                            lastChord, lastRead)
                ELSE PlayFrame(currentFrameIndex,
                               Env(playbackSpeed, sheetData, TRUE), TRUE,
                               timers) } : Render(u)
  /\ lastOp' = IF isPlaying THEN "pause" ELSE "play"

\* variant of HandlePlayPause: play on a frame that has already sounded arms
\* the timer without starting the chord again
HandlePlayPause_Quiet ==
  /\ Mounted
  /\ \E u \in { IF isPlaying
                THEN Update(FALSE, currentFrameIndex, timeoutRef,
                            ClearTimeout(timers, timeoutRef), lastChord,
                            lastRead)
                ELSE PlayFrame(currentFrameIndex,
                               Env(playbackSpeed, sheetData, TRUE), TRUE,
                               timers) } :
       Render(IF ~isPlaying /\ lastRead = currentFrameIndex
              THEN [u EXCEPT !.lastChord = lastChord]
              ELSE u)
  /\ lastOp' = IF isPlaying THEN "pause" ELSE "play"

\* variant of HandlePlayPause: play restarts from frame 0
HandlePlayPause_Restart ==
  /\ Mounted
  /\ \E u \in { IF isPlaying
                THEN Update(FALSE, currentFrameIndex, timeoutRef,
                            ClearTimeout(timers, timeoutRef), lastChord,
                            lastRead)
                ELSE PlayFrame(0, Env(playbackSpeed, sheetData, TRUE), TRUE,
                               timers) } : Render(u)
  /\ lastOp' = IF isPlaying THEN "pause" ELSE "play"

HandlePlayPause ==
  /\ Mounted
  /\ \E u \in { IF isPlaying
                THEN Update(FALSE, currentFrameIndex, timeoutRef,
                            ClearTimeout(timers, timeoutRef), lastChord,
                            lastRead)
                ELSE PlayFrame(currentFrameIndex,
                               Env(playbackSpeed, sheetData, TRUE), TRUE,
                               timers) } : Render(u)
  /\ lastOp' = IF isPlaying THEN "pause" ELSE "play"

\* variant of HandleStop: forgets clearTimeout
HandleStop_NoClear ==
  /\ Mounted
  /\ Render(Update(FALSE, 0, timeoutRef, timers, lastChord, lastRead))
  /\ lastOp' = "stop"

\* variant of HandleStop: forgets setCurrentFrameIndex(0)
HandleStop_KeepIndex ==
  /\ Mounted
  /\ Render(Update(FALSE, currentFrameIndex, timeoutRef,
                   ClearTimeout(timers, timeoutRef), lastChord, lastRead))
  /\ lastOp' = "stop"

HandleStop ==
  /\ Mounted
  /\ Render(Update(FALSE, 0, timeoutRef, ClearTimeout(timers, timeoutRef),
                   lastChord, lastRead))
  /\ lastOp' = "stop"

Max(a, b) == IF a >= b THEN a ELSE b

Min(a, b) == IF a <= b THEN a ELSE b

\* variant of SpeedDown: the lower clamp is missing
SpeedDown_NoFloor ==
  /\ Mounted
  /\ playbackSpeed' = playbackSpeed - SpeedStep
  /\ lastOp' = "speedDown"
  /\ UNCHANGED <<appVars, isPlaying, currentFrameIndex, timeoutRef, timers,
                 viewVars, lastChord, lastRead, answer>>

SpeedDown ==
  /\ Mounted
  /\ playbackSpeed' = Max(MinSpeed, playbackSpeed - SpeedStep)
  /\ lastOp' = "speedDown"
  /\ UNCHANGED <<appVars, isPlaying, currentFrameIndex, timeoutRef, timers,
                 viewVars, lastChord, lastRead, answer>>

\* variant of SpeedUp: the click also cancels the pending timer
SpeedUp_Cancel ==
  /\ Mounted
  /\ playbackSpeed' = Min(MaxSpeed, playbackSpeed + SpeedStep)
  /\ timers' = ClearTimeout(timers, timeoutRef)
  /\ lastOp' = "speedUp"
  /\ UNCHANGED <<appVars, isPlaying, currentFrameIndex, timeoutRef, viewVars,
                 lastChord, lastRead, answer>>

SpeedUp ==
  /\ Mounted
  /\ playbackSpeed' = Min(MaxSpeed, playbackSpeed + SpeedStep)
  /\ lastOp' = "speedUp"
  /\ UNCHANGED <<appVars, isPlaying, currentFrameIndex, timeoutRef, timers,
                 viewVars, lastChord, lastRead, answer>>

\* the callback armed by playFrame runs
TimerFire ==
  \E t \in timers :
    /\ Due(t)
    /\ \E u \in { PlayFrame(t.index, t.env, isPlaying, timers \ {t}) } :
         Render(u)
    /\ lastOp' = "fire"

\* time passes for a pending timer
Elapse ==
  \E t \in timers :
    /\ t.progress < Phases
    /\ timers' = (timers \ {t}) \cup {[t EXCEPT !.progress = @ + 1]}
    /\ UNCHANGED <<appVars, playerVars, viewVars, lastChord, lastRead, answer,
                   lastOp>>

\* the uploaded pages some frame refers to; drawFrame looks up no other
PagesInUse(data, n) ==
  { data.frames[i].pageIndex : i \in 1..Len(data.frames) } \cap (0..(n - 1))

\* a page image finishes decoding; the first one has the onload handler,
\* which calls drawFrame(0), and an error raised there reaches no effect
ImageLoad ==
  /\ Mounted
  /\ \E p \in PagesInUse(sheetData, imageSrcs) \ images :
       /\ images' = images \cup {p}
       /\ canvas' = IF /\ p = 0
                       /\ DrawFrame(0, sheetData, images \cup {p}) = "draw"
                    THEN 0
                    ELSE canvas
  /\ UNCHANGED <<appVars, playerVars, timers, lastChord, lastRead, answer,
                 lastOp>>

\* ----------------------------------------------------------------- the App
\* variant of Unmount: the effect has no cleanup
Unmount_NoCleanup(tbl) == { [t EXCEPT !.env.live = FALSE] : t \in tbl }

\* MusicPlayer leaves the tree
Unmount(tbl) == Teardown(tbl, timeoutRef)

\* handleFilesSelect up to its first await
SelectFiles ==
  \E n \in 1..MaxPages :
    /\ status \in {"IDLE", "ERROR"}
    /\ pc = "none"
    /\ status' = "ANALYZING"
    /\ errorMessage' = NoMsg
    /\ pc' = "reading"
    /\ files' = n
    /\ lastOp' = "select"
    /\ UNCHANGED <<imageSrcs, sheetData, playerVars, timers, viewVars,
                   lastChord, lastRead, answer>>

\* Promise.all(filePromises) resolves
ReadDone ==
  /\ pc = "reading"
  /\ imageSrcs' = files
  /\ pc' = "analyzing"
  /\ lastOp' = "read"
  /\ UNCHANGED <<status, sheetData, errorMessage, files, playerVars, timers,
                 viewVars, lastChord, lastRead, answer>>

\* a FileReader rejects
ReadFail ==
  /\ pc = "reading"
  /\ status' = "ERROR"
  /\ errorMessage' = ReadFailedMsg
  /\ pc' = "none"
  /\ lastOp' = "readFail"
  /\ UNCHANGED <<imageSrcs, sheetData, files, playerVars, timers, viewVars,
                 lastChord, lastRead, answer>>

\* analyzeSheetMusic: does the call throw on this answer
Throws(resp) == resp.kind # "ok"

\* a non-negative integer as a template literal prints it
RECURSIVE NumberToString(_)
NumberToString(n) ==
  IF n < 10 THEN <<Digits[n + 1]>>
  ELSE NumberToString(n \div 10) \o <<Digits[(n % 10) + 1]>>

\* `frame-${index}-${Date.now()}`
FrameId(index, now) ==
  <<"f", "r", "a", "m", "e", "-">> \o NumberToString(index) \o <<"-">>
    \o NumberToString(now)

\* variant of Ingest: the frame's own fields are spread after the id
Ingest_SpreadLast(resp, now) ==
  [tempo |-> resp.tempo,
   frames |-> [i \in 1..Len(resp.frames) |->
                 [k \in DOMAIN resp.frames[i] \cup {"id"} |->
                    IF k \in DOMAIN resp.frames[i] THEN resp.frames[i][k]
                    ELSE FrameId(i - 1, now)]]]

\* analyzeSheetMusic: the value it returns for a parsed answer, every frame
\* copied with its id set
Ingest(resp, now) ==
  [tempo |-> resp.tempo,
   frames |-> [i \in 1..Len(resp.frames) |->
                 [k \in DOMAIN resp.frames[i] \cup {"id"} |->
                    IF k = "id" THEN FrameId(i - 1, now)
                    ELSE resp.frames[i][k]]]]

\* MusicPlayer mounts on data with the images pre already complete: both
\* the init effect and the redraw effect call drawFrame(0)
Mount(data, pre) ==
  IF DrawFrame(0, data, pre) = "throw"
  THEN /\ Crash(timers, timeoutRef)
       /\ UNCHANGED <<files, lastChord, lastRead>>
  ELSE /\ sheetData' = data
       /\ status' = "READY"
       /\ images' = pre
       /\ canvas' = IF DrawFrame(0, data, pre) = "draw" THEN 0 ELSE -1
       /\ lastChord' = NoChord
       /\ lastRead' = -1
       /\ UNCHANGED <<imageSrcs, errorMessage, files, playerVars, timers>>

\* await analyzeSheetMusic(...) settles
AnalyzeDone ==
  \E resp \in Responses, now \in Stamps :
    /\ pc = "analyzing"
    /\ pc' = "none"
    /\ lastOp' = IF Throws(resp) THEN "analyzeFail" ELSE "ready"
    /\ IF Throws(resp)
       THEN /\ status' = "ERROR"
            /\ errorMessage' = AnalyzeFailedMsg
            /\ UNCHANGED <<imageSrcs, sheetData, files, playerVars, timers,
                           viewVars, lastChord, lastRead, answer>>
       ELSE /\ answer' = resp
            /\ \E pre \in SUBSET PagesInUse(resp, imageSrcs) :
                 Mount(Ingest(resp, now), pre)

\* variant of HandleReset: forgets setSheetData(null)
HandleReset_KeepData ==
  /\ status = "ERROR" \/ Mounted
  /\ status' = "IDLE"
  /\ imageSrcs' = 0
  /\ errorMessage' = NoMsg
  /\ timers' = IF Mounted THEN Unmount(timers) ELSE timers
  /\ FreshPlayer
  /\ images' = {}
  /\ canvas' = -1
  /\ answer' = NoData
  /\ lastOp' = "reset"
  /\ UNCHANGED <<sheetData, pc, files, lastChord, lastRead>>

\* App.handleReset: "Try Again" in ERROR, "Upload New" in the player
HandleReset ==
  /\ status = "ERROR" \/ Mounted
  /\ status' = "IDLE"
  /\ imageSrcs' = 0
  /\ sheetData' = NoData
  /\ errorMessage' = NoMsg
  /\ timers' = IF Mounted THEN Unmount(timers) ELSE timers
  /\ FreshPlayer
  /\ images' = {}
  /\ canvas' = -1
  /\ answer' = NoData
  /\ lastOp' = "reset"
  /\ UNCHANGED <<pc, files, lastChord, lastRead>>

UserAction ==
  \/ HandlePlayPause
  \/ HandleStop
  \/ SpeedDown
  \/ SpeedUp
  \/ SelectFiles
  \/ HandleReset

Next ==
  \/ HandlePlayPause
  \/ HandleStop
  \/ SpeedDown
  \/ SpeedUp
  \/ TimerFire
  \/ Elapse
  \/ ImageLoad
  \/ SelectFiles
  \/ ReadDone
  \/ ReadFail
  \/ AnalyzeDone
  \/ HandleReset

Spec == Init /\ [][Next]_vars

\* ------------------------------------------------------------- properties
NumFrames == IF sheetData = NoData THEN 0 ELSE Len(sheetData.frames)

\* the delay playFrame computes for the frame at index under a given speed
DelayOf(index, speed) ==
  FrameDurationMs(sheetData.tempo, sheetData.frames[index + 1].duration, speed)

\* C1: once pause has run (handlePlayPause while isPlaying) no advance timer
\* is left pending, and as long as the user does nothing more no step changes
\* currentFrameIndex or turns isPlaying back on.
C1_PauseStopsAdvance ==
  /\ [](lastOp = "pause" => (timers = {} /\ ~isPlaying))
  /\ [][(lastOp = "pause" /\ ~UserAction) =>
          (currentFrameIndex' = currentFrameIndex /\ ~isPlaying')]_vars

\* C1 witness: playback was paused after it had advanced past frame 0
C1_Witness ==
  /\ lastOp = "pause"
  /\ currentFrameIndex > 0
  /\ timeoutRef # 0

\* C2: at most one advance timer is pending in every reachable state, and a
\* pending one is the timer timeoutRef holds; hence whenever playFrame arms a
\* timer every earlier one has fired or been cleared.
C2_AtMostOneTimer ==
  /\ Cardinality(timers) <= 1
  /\ \A t \in timers : t.id = timeoutRef /\ t.env.live

\* C2 witness: a timer armed by a timer callback during a run in which the
\* speed was changed
C2_Witness ==
  /\ lastOp = "fire"
  /\ Cardinality(timers) = 1
  /\ playbackSpeed # InitialSpeed
  /\ currentFrameIndex = 2

\* C3: every reset (handleStop) step ends with currentFrameIndex = 0,
\* isPlaying = false and no pending timer, whatever the state before it; a
\* reset applied right after a reset changes nothing.
C3_ResetToStart ==
  /\ [][HandleStop =>
          (currentFrameIndex' = 0 /\ ~isPlaying' /\ timers' = {})]_vars
  /\ [][lastOp = "stop" => ~HandleStop]_vars

\* C3 witness: reset ran after playback had reached the third frame
C3_Witness ==
  /\ lastOp = "stop"
  /\ lastRead = 2
  /\ currentFrameIndex = 0
  /\ ~isPlaying

\* C4: pause keeps currentFrameIndex at the frame that was active (the last
\* one playFrame played), and the play that follows a pause plays that same
\* frame first: it reads frames[k], keeps the index at k and arms the timer
\* for k + 1.
C4_ResumeSameFrame ==
  /\ [](lastOp = "pause" => currentFrameIndex = lastRead)
  /\ [][(lastOp = "pause" /\ HandlePlayPause) =>
          /\ currentFrameIndex' = currentFrameIndex
          /\ lastRead' = currentFrameIndex
          /\ isPlaying'
          /\ \E t \in timers' : t.index = currentFrameIndex + 1]_vars

\* C4 witness: play resumed at the last frame of a three-frame session
C4_Witness ==
  /\ lastOp = "play"
  /\ currentFrameIndex = 2
  /\ lastRead = 2
  /\ isPlaying

\* C5: every timer firing plays frame k + 1 when the index is k, moves
\* currentFrameIndex to exactly k + 1 and keeps playing (unless drawing that
\* frame tears the tree down), or, when k is the last index, stops at index 0.
C5_StrictSequence ==
  [][TimerFire =>
      IF currentFrameIndex + 1 < NumFrames
      THEN /\ lastRead' = currentFrameIndex + 1
           /\ isPlaying
           /\ status' # "CRASHED" =>
                (currentFrameIndex' = currentFrameIndex + 1 /\ isPlaying')
      ELSE /\ currentFrameIndex' = 0
           /\ isPlaying /\ ~isPlaying']_vars

\* C5 witness: a timer callback advanced playback from the second to the
\* third frame and armed the next callback
C5_Witness ==
  /\ lastOp = "fire"
  /\ isPlaying
  /\ currentFrameIndex = 2
  /\ \E t \in timers : t.index = 3

\* C6: the firing of the timer armed for the last frame stops playback
\* (isPlaying false, index 0), arms nothing and reads no frame; no frame read
\* is ever at or past frames.length; and playback stops by itself only in
\* that firing, whose timer carried the last frame's full delay (a tree torn
\* down by a failed draw is not playback stopping by itself).
C6_AutoStop ==
  /\ [](Mounted => lastRead < NumFrames)
  /\ [][(TimerFire /\ currentFrameIndex = NumFrames - 1) =>
          /\ ~isPlaying'
          /\ currentFrameIndex' = 0
          /\ timers' = {}
          /\ UNCHANGED <<lastRead, lastChord, timeoutRef>>]_vars
  /\ [][(isPlaying /\ ~isPlaying' /\ ~UserAction /\ status' # "CRASHED") =>
          /\ currentFrameIndex = NumFrames - 1
          /\ \E t \in timers :
               /\ Due(t)
               /\ t.index = NumFrames
               /\ t.delay = DelayOf(NumFrames - 1, t.env.speed)]_vars

\* C6 witness: playback of a three-frame session stopped by itself
C6_Witness ==
  /\ lastOp = "fire"
  /\ ~isPlaying
  /\ currentFrameIndex = 0
  /\ lastRead = 2
  /\ NumFrames = 3

\* C9: a speed click changes playbackSpeed and nothing else of the player:
\* index, isPlaying, the timer handle and the pending timer with its delay
\* stay as they were.
C9_SpeedOnlySpeed ==
  [][(SpeedUp \/ SpeedDown) =>
      UNCHANGED <<currentFrameIndex, isPlaying, timeoutRef, timers>>]_vars

\* C9 witness: the speed was changed while a timer was pending
C9_Witness ==
  /\ lastOp \in {"speedUp", "speedDown"}
  /\ playbackSpeed # InitialSpeed
  /\ timers # {}
  /\ isPlaying

\* a session as the data model requires it
WellFormed ==
  /\ sheetData # NoData
  /\ sheetData.tempo > 0
  /\ Len(sheetData.frames) > 0
  /\ \A i \in 1..Len(sheetData.frames) : sheetData.frames[i].duration > 0

StoppedAtStart == ~isPlaying /\ currentFrameIndex = 0 /\ timers = {}

\* every armed timer eventually fires: time passes and the event loop runs
\* the callbacks that are due
LiveSpec == Spec /\ WF_vars(TimerFire) /\ WF_vars(Elapse)

\* C7: in a well-formed session, playback that is running reaches the
\* stopped state (isPlaying false, index 0, no timer) unless the user
\* intervenes (pause, reset, speed click, new upload); and the stopped state
\* is left only by a user action.
C7_EventuallyStops ==
  /\ (isPlaying /\ WellFormed) ~>
       (StoppedAtStart
          \/ lastOp \in {"pause", "stop", "reset", "speedUp", "speedDown"})
  /\ [][(StoppedAtStart /\ ~UserAction) => StoppedAtStart']_vars

\* C7 witness: a well-formed three-frame session played to its end and
\* stopped by itself
C7_Witness ==
  /\ WellFormed
  /\ StoppedAtStart
  /\ lastOp = "fire"
  /\ NumFrames = MaxFrames
  /\ lastRead = MaxFrames - 1

\* C8: after a speed click during playback, the timer armed by the next
\* firing and the chord of that frame use the new playbackSpeed.
C8_NextTickNewSpeed ==
  (lastOp = "fire" /\ isPlaying /\ WellFormed) =>
    /\ \A t \in timers : t.delay = DelayOf(currentFrameIndex, playbackSpeed)
    /\ lastChord.dur =
         Articulated(FrameDurationSec(sheetData.tempo,
                       sheetData.frames[currentFrameIndex + 1].duration,
                       playbackSpeed))

\* C10: an analysis result with no frames or with tempo <= 0 never becomes
\* the session: sheetData is only ever set to a result with at least one
\* frame and a positive tempo, so the player is never mounted on such data.
C10_LoadRejects ==
  sheetData # NoData =>
    (Len(sheetData.frames) > 0 /\ sheetData.tempo > 0)

\* C11: a failed analysis is reported by the one step that fails: it leaves
\* status ERROR with the analysis message, sheetData null and the player not
\* mounted, and nothing but a user action changes status or message after
\* it; "Try Again" in ERROR gives IDLE with imageSrcs, sheetData and
\* errorMessage cleared; and sheetData is non-null only while status is READY.
C11_FailureLeavesNoSession ==
  /\ [](sheetData # NoData => status = "READY")
  /\ [](lastOp = "analyzeFail" =>
          /\ status = "ERROR"
          /\ errorMessage = AnalyzeFailedMsg
          /\ sheetData = NoData
          /\ ~Mounted)
  /\ [](status = "ERROR" => errorMessage # NoMsg)
  /\ [][(status = "ERROR" /\ ~UserAction) =>
          UNCHANGED <<status, errorMessage, sheetData>>]_vars
  /\ [][(status = "ERROR" /\ HandleReset) =>
          /\ status' = "IDLE"
          /\ imageSrcs' = 0
          /\ sheetData' = NoData
          /\ errorMessage' = NoMsg]_vars

\* C11 witness: the analysis of uploaded pages failed
C11_Witness ==
  /\ lastOp = "analyzeFail"
  /\ status = "ERROR"
  /\ imageSrcs > 0
  /\ errorMessage = AnalyzeFailedMsg

\* C12: with a positive tempo every pending advance timer has a strictly
\* positive finite delay, also for a frame whose duration is 0 or negative.
C12_PositiveDelay ==
  \A t \in timers :
    t.env.data.tempo > 0 => (t.delay.den > 0 /\ t.delay.num > 0)

\* C13: playbackSpeed (counted in quarters) stays within 0.25 .. 2.0; a
\* speed click moves it by one quarter at most, speed-down at 0.25 and
\* speed-up at 2.0 leave it unchanged.
C13_SpeedRange ==
  /\ [](playbackSpeed \in 1..8)
  /\ [][SpeedDown =>
          playbackSpeed' = IF playbackSpeed = 1 THEN 1 ELSE playbackSpeed - 1]_vars
  /\ [][SpeedUp =>
          playbackSpeed' = IF playbackSpeed = 8 THEN 8 ELSE playbackSpeed + 1]_vars

\* C13 witness: speed-down was clicked and the speed is 0.25
C13_Witness ==
  /\ lastOp = "speedDown"
  /\ playbackSpeed = 1
  /\ isPlaying

\* C14: "Upload New" in any playback state leaves no timer pending, so no
\* timer of an ended session is ever pending or fires; and a session that has
\* just been mounted is at index 0, not playing, at speed 1.0, with no timer.
C14_UploadNewDestroysSession ==
  /\ [][(Mounted /\ HandleReset) => (timers' = {} /\ ~Mounted')]_vars
  /\ [](\A t \in timers : t.env.live)
  /\ [](~Mounted => timers = {})
  /\ []((lastOp = "ready" /\ Mounted) =>
          /\ currentFrameIndex = 0
          /\ ~isPlaying
          /\ playbackSpeed = 4
          /\ timeoutRef = 0
          /\ timers = {})

\* C14 witness: "Upload New" was clicked in a session whose playback had
\* reached the third frame
C14_Witness ==
  /\ lastOp = "reset"
  /\ status = "IDLE"
  /\ lastRead = 2
  /\ timers = {}

\* C15: no malformed frame is fatal: the tree is never torn down by an
\* error, and playback is never left with isPlaying true and no pending timer.
C15_MalformedNotFatal ==
  /\ status # "CRASHED"
  /\ (Mounted /\ isPlaying) => timers # {}

\* is the image of the frame at index complete
ImageReady(index) ==
  /\ index < NumFrames
  /\ sheetData.frames[index + 1].pageIndex \in images

\* C16: when the image of the frame a timer firing or a reset moves to is
\* absent or not complete, the canvas is left as it was, nothing is torn
\* down, and the firing still sets the index and arms the next timer with the
\* frame's delay; the canvas changes only with the index or with an image
\* finishing; and a move to a frame whose image is complete draws it.
C16_SkippedDraw ==
  /\ [][(TimerFire /\ currentFrameIndex + 1 < NumFrames
           /\ ~ImageReady(currentFrameIndex + 1)) =>
          /\ canvas' = canvas
          /\ Mounted'
          /\ isPlaying'
          /\ currentFrameIndex' = currentFrameIndex + 1
          /\ \E t \in timers' :
               /\ t.id = timeoutRef'
               /\ t.index = currentFrameIndex + 2
               /\ t.progress = 0
               /\ t.delay = DelayOf(currentFrameIndex + 1, t.env.speed)]_vars
  /\ [][(HandleStop /\ currentFrameIndex # 0 /\ ~ImageReady(0)) =>
          (canvas' = canvas /\ Mounted' /\ currentFrameIndex' = 0)]_vars
  /\ [][(Mounted /\ Mounted' /\ currentFrameIndex' = currentFrameIndex
           /\ images' = images) => canvas' = canvas]_vars
  /\ [][((TimerFire \/ HandleStop) /\ Mounted'
           /\ currentFrameIndex' # currentFrameIndex
           /\ ImageReady(currentFrameIndex')) =>
          canvas' = currentFrameIndex']_vars

\* C16 witness: playback moved to a frame on a page that was never
\* uploaded while the canvas keeps showing the frame before it
C16_Witness ==
  /\ lastOp = "fire"
  /\ isPlaying
  /\ currentFrameIndex = 2
  /\ sheetData.frames[3].pageIndex = 7
  /\ canvas = 1
  /\ timers # {}

\* C17: for a frame of positive duration played at positive tempo the timer
\* delay is (60 / tempo) * duration / speed seconds, speed being the
\* playbackSpeed playFrame reads, and the chord lasts 0.95 of it; at half the
\* speed the delay is twice, at twice the tempo half as long; at tempo 120
\* and speed 1.0 one beat, half a beat and two beats take 500, 250 and
\* 1000 ms.
C17_DelayFormula ==
  \A t \in timers :
    LET tempo == t.env.data.tempo
        duration == t.env.data.frames[t.index].duration
        speed == t.env.speed
    IN (Mounted /\ tempo > 0 /\ duration > 0) =>
         /\ t.delay.den > 0
         /\ t.delay.num * tempo * speed = t.delay.den * 60 * 1000 * duration
         /\ lastChord.dur.den > 0
         /\ lastChord.dur.num * 100 * tempo * speed
              = lastChord.dur.den * 95 * 60 * duration
         /\ speed % 2 = 0 =>
              FrameDurationMs(tempo, duration, speed \div 2)
                = FracMul(t.delay, Norm(2, 1))
         /\ FrameDurationMs(2 * tempo, duration, speed)
              = FracDiv(t.delay, Norm(2, 1))
         /\ (tempo = 120 /\ speed = 4 /\ duration = 4) => t.delay = Norm(500, 1)
         /\ (tempo = 120 /\ speed = 4 /\ duration = 2) => t.delay = Norm(250, 1)
         /\ (tempo = 120 /\ speed = 4 /\ duration = 8) => t.delay = Norm(1000, 1)

\* C17 witness: the one-beat first frame was played at speed 0.5 and its
\* timer is armed for 1000 ms
C17_Witness ==
  /\ isPlaying
  /\ currentFrameIndex = 0
  /\ \E t \in timers :
       /\ t.env.speed = 2
       /\ t.env.data.tempo = 120
       /\ t.delay = Norm(1000, 1)

\* --------------------------------------------------- the tone synthesizer
\* a player mounted on a two-frame session whose first frame carries any of
\* the chords, its page image complete
ChordInit ==
  \E chord \in Chords, tempo \in Tempos, now \in Stamps :
    /\ status = "READY"
    /\ imageSrcs = 1
    /\ answer = [kind |-> "ok", tempo |-> tempo,
                 frames |-> <<ChordFrame(chord), ScoreFrame(1)>>]
    /\ sheetData = Ingest(answer, now)
    /\ errorMessage = NoMsg
    /\ pc = "none"
    /\ files = 1
    /\ isPlaying = FALSE
    /\ currentFrameIndex = 0
    /\ playbackSpeed = InitialSpeed
    /\ timeoutRef = 0
    /\ timers = {}
    /\ images = {0}
    /\ canvas = 0
    /\ lastChord = NoChord
    /\ lastRead = -1
    /\ lastOp = "ready"

ChordNext ==
  \/ HandlePlayPause
  \/ TimerFire
  \/ Elapse

ChordSpec == ChordInit /\ [][ChordNext]_vars

\* the pitches of the frame playFrame played last
PlayedPitches ==
  IF lastRead < 0 THEN <<>> ELSE sheetData.frames[lastRead + 1].notes

\* the pitches of the voices the last playChord call started
VoicePitches ==
  [i \in 1..Len(lastChord.voices) |-> lastChord.voices[i].pitch]

\* C18: a chord of N pitches none of which is a rest starts exactly N
\* voices, one per pitch in order, duplicates included, all starting at the
\* one clock reading of the chord.
C18_OneVoicePerPitch ==
  (lastRead >= 0 /\ \A i \in 1..Len(PlayedPitches) : ~IsRest(PlayedPitches[i]))
    => /\ Len(lastChord.voices) = Len(PlayedPitches)
       /\ \A i \in 1..Len(PlayedPitches) :
            /\ lastChord.voices[i].pitch = PlayedPitches[i]
            /\ lastChord.voices[i].start = lastChord.voices[1].start

\* C18 witness: a chord of the same pitch twice started two voices
C18_Witness ==
  /\ lastRead = 0
  /\ Len(PlayedPitches) = 2
  /\ PlayedPitches[1] = PlayedPitches[2]
  /\ Len(lastChord.voices) = 2

\* does the token contain "rest" in any letter case
MatchesRest(p) ==
  \E i \in 1..(Len(p) - 3) :
    /\ p[i] \in {"r", "R"}
    /\ p[i + 1] \in {"e", "E"}
    /\ p[i + 2] \in {"s", "S"}
    /\ p[i + 3] \in {"t", "T"}

\* C19: the voices of a chord are exactly its pitches that do not contain
\* "rest" in any letter case; a frame with no other pitch starts no voice,
\* yet its timer is armed with the frame's full delay and its firing
\* advances to the next frame.
C19_RestIsSilent ==
  /\ [](VoicePitches = SelectSeq(PlayedPitches, LAMBDA p : ~MatchesRest(p)))
  /\ []((isPlaying /\ lastRead >= 0
           /\ \A i \in 1..Len(PlayedPitches) : MatchesRest(PlayedPitches[i])) =>
          /\ lastChord.voices = <<>>
          /\ \E t \in timers :
               /\ t.index = lastRead + 1
               /\ t.delay = DelayOf(lastRead, t.env.speed)
               /\ ~Immediate(t.delay))
  /\ [][(TimerFire /\ lastRead = 0) =>
          (currentFrameIndex' = 1 /\ lastRead' = 1 /\ isPlaying')]_vars

\* C19 witness: playback has advanced past a first frame made of two rests
C19_Witness ==
  /\ lastOp = "fire"
  /\ lastRead = 1
  /\ isPlaying
  /\ Len(sheetData.frames[1].notes) = 2
  /\ \A i \in 1..2 : MatchesRest(sheetData.frames[1].notes[i])

\* C20: a voice whose token is a name of the table (in either letter case)
\* followed by octave digits has the frequency of midi number
\* (octave + 1) * 12 + semitoneIndex; every other voice has 440 Hz; A4 is
\* midi 69 (440 Hz), A5 midi 81 (880 Hz), C4 midi 60, and a flat gets 440 Hz.
C20_PitchParsing ==
  \A i \in 1..Len(lastChord.voices) :
    LET p == lastChord.voices[i].pitch
        freq == lastChord.voices[i].freq
        semitoneIndex(k) == IndexOf(NoteNames, ToUpperCase(SubSeq(p, 1, k))) - 1
        octave(k) == ParseInt(SubSeq(p, k + 1, Len(p)))
        splits == { k \in 1..(Len(p) - 1) :
                      /\ semitoneIndex(k) >= 0
                      /\ \A j \in (k + 1)..Len(p) : IsDigit(p[j]) }
    IN /\ \A k \in splits :
            freq = Hz440((octave(k) + 1) * 12 + semitoneIndex(k) - 69)
       /\ splits = {} => freq = Hz440(0)
       /\ p = <<"A", "4">> => freq = Hz440(69 - 69)
       /\ p = <<"A", "5">> => freq = Hz440(81 - 69)
       /\ p = <<"C", "4">> => freq = Hz440(60 - 69)
       /\ p = <<"B", "b", "4">> => freq = Hz440(0)

\* C20 witness: the chord A5 with B flat 4 sounds at 880 Hz and 440 Hz
C20_Witness ==
  /\ lastRead = 0
  /\ VoicePitches = << <<"A", "5">>, <<"B", "b", "4">> >>
  /\ lastChord.voices[1].freq = Hz440(12)
  /\ lastChord.voices[2].freq = DefaultFrequency

\* ---------------------------------------------------------------- ingestion
\* C21: the frames of a session are the frames of the service's answer, as
\* many and in the same order, each with every field of the answer but id
\* kept; every frame's id is the local one, frame-<index>-<clock reading>,
\* whatever id the answer carried; and the ids of one session are pairwise
\* distinct.
C21_LocalDistinctIds ==
  sheetData # NoData =>
    /\ answer # NoData
    /\ sheetData.tempo = answer.tempo
    /\ Len(sheetData.frames) = Len(answer.frames)
    /\ \A i \in 1..Len(answer.frames) :
         /\ DOMAIN sheetData.frames[i] = DOMAIN answer.frames[i] \cup {"id"}
         /\ \A k \in DOMAIN answer.frames[i] \ {"id"} :
              sheetData.frames[i][k] = answer.frames[i][k]
         /\ \E now \in Stamps : sheetData.frames[i].id = FrameId(i - 1, now)
    /\ \A i, j \in 1..Len(sheetData.frames) :
         i # j => sheetData.frames[i].id # sheetData.frames[j].id
    /\ (Len(sheetData.frames) >= 2 /\ 1700 \in Stamps) =>
         sheetData.frames[2].id
           = <<"f", "r", "a", "m", "e", "-", "1", "-", "1", "7", "0", "0">>

\* C21 witness: a session ingested from an answer whose two frames carried
\* the same id, of which the second was replaced
C21_Witness ==
  /\ lastOp = "ready"
  /\ sheetData # NoData
  /\ Len(answer.frames) = 2
  /\ \A i \in 1..2 : "id" \in DOMAIN answer.frames[i]
  /\ answer.frames[1].id = answer.frames[2].id
  /\ sheetData.frames[2].id # answer.frames[2].id

\* --------------------------------------------------------------- the index
\* C22: while the player is mounted on a session with at least one frame,
\* currentFrameIndex is an integer from 0 to frames.length - 1: no play,
\* pause, reset, speed click or timer firing sets it to frames.length or
\* beyond, or below 0; every frame playFrame reads is inside the same range.
C22_IndexInRange ==
  (Mounted /\ NumFrames > 0) =>
    /\ currentFrameIndex \in 0..(NumFrames - 1)
    /\ lastRead \in -1..(NumFrames - 1)
    /\ \A t \in timers : t.index \in 1..NumFrames

\* C22 witness: the timer armed for the last frame of a three-frame session
\* fired at a changed speed, and the index is back at 0, not at 3
C22_Witness ==
  /\ Mounted
  /\ NumFrames = 3
  /\ lastOp = "fire"
  /\ lastRead = NumFrames - 1
  /\ currentFrameIndex = 0
  /\ playbackSpeed # InitialSpeed

\* ---------------------------------------------------------------- the view
\* C23: whenever the image of the frame at currentFrameIndex is loaded, the
\* canvas shows that frame: it shows no other frame once the index has moved,
\* and frame 0 after an auto-stop or a reset.
C23_ViewSync ==
  (Mounted /\ ImageReady(currentFrameIndex)) => canvas = currentFrameIndex

\* ------------------------------------------------------ playing and timers
\* C24: in a well-formed session isPlaying is true exactly when one advance
\* timer is pending: while playing, the one pending timer is the live one
\* held by timeoutRef, armed for the frame after the current one (no stuck
\* frame); while not playing, no timer is pending (no ghost advance).
C24_PlayingIffTimer ==
  WellFormed =>
    /\ isPlaying <=> Cardinality(timers) = 1
    /\ ~isPlaying => timers = {}
    /\ isPlaying =>
         \E t \in timers :
           /\ t.id = timeoutRef
           /\ t.env.live
           /\ t.index = currentFrameIndex + 1

\* C24 witness: a well-formed session playing again after a pause at its
\* second frame, with its one timer pending
C24_Witness ==
  /\ WellFormed
  /\ lastOp = "play"
  /\ currentFrameIndex = 1
  /\ isPlaying
  /\ Cardinality(timers) = 1

\* ------------------------------------------------------------------ resume
\* C25: a play click at index k, the resume after a pause included, plays
\* frame k from its beginning: it reads frame k, starts the voices of its
\* chord for 0.95 of the frame's duration at the speed current at the click,
\* and arms one fresh timer for the frame's full delay at that speed, with
\* nothing of it elapsed, while currentFrameIndex stays k; so every
\* pause/resume cycle within frame k starts its voices once more.
C25_ResumeRestartsFrame ==
  [][(HandlePlayPause /\ ~isPlaying /\ NumFrames > 0) =>
      LET k == currentFrameIndex
          frame == sheetData.frames[k + 1]
          sec == FrameDurationSec(sheetData.tempo, frame.duration,
                                  playbackSpeed)
      IN /\ currentFrameIndex' = k
         /\ isPlaying'
         /\ lastRead' = k
         /\ lastChord'.dur = FracMul(sec, Norm(95, 100))
         /\ [i \in 1..Len(lastChord'.voices) |-> lastChord'.voices[i].pitch]
              = SelectSeq(frame.notes, LAMBDA p : ~MatchesRest(p))
         /\ \E t \in timers' :
              /\ timers' = {t}
              /\ t.id = timeoutRef'
              /\ t.index = k + 1
              /\ t.progress = 0
              /\ t.env.speed = playbackSpeed
              /\ t.delay = FracMul(sec, Norm(1000, 1))]_vars

\* C25 witness: play was resumed at the two-beat third frame at half speed;
\* its chord sounds again and its timer is armed for the full 2000 ms
C25_Witness ==
  /\ lastOp = "play"
  /\ currentFrameIndex = 2
  /\ lastRead = 2
  /\ playbackSpeed = 2
  /\ Len(lastChord.voices) = 2
  /\ \E t \in timers : t.progress = 0 /\ t.delay = Norm(2000, 1)

====
